---------------------------- MODULE Spec2Model ----------------------------
(***************************************************************************)
(* Model of the price-report service: POST /reports (validation,           *)
(* remapping, per-report dedup fan-out), GET /reports (paginated read) and *)
(* the yup validators the two routes share.                                *)
(*                                                                         *)
(* Strings are sequences of one-character strings.  Time is counted in     *)
(* hours; two rows created within the same clock value carry the same      *)
(* `created` timestamp.                                                    *)
(***************************************************************************)
EXTENDS Integers, Sequences, FiniteSets, TLC

\* ------------------------------------------------------------------ bounds

\* request slots: each is one incoming HTTP request
MaxReq == 2
\* longest batch of an (otherwise arbitrary) valid request body
MaxBatch == 2
\* the clock stops advancing here
MaxClock == 9
\* rows per page of GET /reports: 10_000 in index.ts, scaled down
PageSize == 2
\* largest page number a modelled query asks for
MaxPage == 2
\* most rows of a table of the runs that read
MaxRows == 3

\* --------------------------------------------------------------- constants

ItemIdMax == 32
StoreIdMax == 8
ItemNameMax == 96
PriceMin == -1
PriceMax == 100000
MaxReports == 100
PageMax == 100
\* the lookback window of the specification, in hours (not in index.ts)
LookbackHours == 8

\* `undefined` where a string is expected: no sequence of Chars equals it
Undefined == <<"undefined">>
\* `undefined` / NaN where a number is expected
NotANumber == [t |-> "undefined", v |-> 0]

Num(n) == [t |-> "number", v |-> n]

\* a numeric string of a JSON body, e.g. "5"
NumStr(n) == [t |-> "string", v |-> n]

\* ----------------------------------------------------------------- strings

AlnumChars == {"a", "b", "Z", "7"}
SpaceChars == {" "}
Chars == AlnumChars \cup SpaceChars \cup {"-"}

\* the complement of the character class of /[^a-zA-Z0-9]/g
IsAlnum(c) == c \in AlnumChars

IsSpace(c) == c \in SpaceChars

Rep(c, n) == [i \in 1..n |-> c]

\* String.prototype.replace(regex, '') with the global regex above
StripNonAlnum(s) == SelectSeq(s, IsAlnum)

RECURSIVE TrimLeft(_)
TrimLeft(s) == IF s # <<>> /\ IsSpace(Head(s)) THEN TrimLeft(Tail(s)) ELSE s

RECURSIVE TrimRight(_)
TrimRight(s) ==
    IF s # <<>> /\ IsSpace(s[Len(s)]) THEN TrimRight(SubSeq(s, 1, Len(s) - 1)) ELSE s

\* String.prototype.trim
Trim(s) == TrimRight(TrimLeft(s))

\* --------------------------------------------------- validators.ts (yup)
\* A transform receives (value, originalValue): value is the output of the
\* previous transform, originalValue the raw input of the field.

StringReplace(value, originalValue) ==
    IF originalValue # Undefined THEN StripNonAlnum(originalValue) ELSE value

StringMaxTrim(value, originalValue, max) ==
    IF originalValue # Undefined /\ Len(originalValue) > max
    THEN SubSeq(originalValue, 1, max)
    ELSE value

\* yup's built-in string().trim() transform
StringTrim(value) == IF value # Undefined THEN Trim(value) ELSE value

\* typeof originalValue === 'number'
IsNumber(raw) == raw.t = "number"

\* yup's number() cast, which runs before the custom transforms: a numeric
\* string becomes its number
NumberCast(raw) == IF raw.t = "undefined" THEN NotANumber ELSE Num(raw.v)

NumberMaxTrim(value, originalValue, max) ==
    IF IsNumber(originalValue) /\ originalValue.v > max THEN Num(max) ELSE value

NumberMinTrim(value, originalValue, min) ==
    IF IsNumber(originalValue) /\ originalValue.v < min THEN Num(min) ELSE value

\* ------------------------------------------------ index.ts: the schemas

\* replace, maxTrim, trim, in the order the schema chains them
StringChain(raw, max) ==
    StringTrim(StringMaxTrim(StringReplace(raw, raw), raw, max))

itemIdSchema(raw) == StringChain(raw, ItemIdMax)

storeIdSchema(raw) == StringChain(raw, StoreIdMax)

itemNameSchema(raw) == StringChain(raw, ItemNameMax)

priceSchema(raw) ==
    NumberMaxTrim(NumberMinTrim(NumberCast(raw), raw, PriceMin), raw, PriceMax)

\* string().required(): undefined and the empty string both fail
StringRequiredOk(v) == v # Undefined /\ v # <<>>

\* the cast of one report (the transforms of every field)
reportCast(raw) ==
    [itemId   |-> itemIdSchema(raw.itemId),
     storeId  |-> storeIdSchema(raw.storeId),
     itemName |-> itemNameSchema(raw.itemName),
     price    |-> priceSchema(raw.price)]

\* the tests of one report, run on the cast value
reportValid(raw) ==
    LET c == reportCast(raw)
    IN  /\ StringRequiredOk(c.itemId)
        /\ StringRequiredOk(c.storeId)
        /\ c.price.t = "number"

\* version: default(1), then the number cast
versionCast(raw) == IF raw.t = "undefined" THEN Num(1) ELSE NumberCast(raw)

\* a body schema that tests the version alone
requestBodyValidVersionOnly(body) ==
    /\ versionCast(body.version).v >= 1
    /\ versionCast(body.version).v <= 1

\* a body schema without the tests of the version
requestBodyValidAnyVersion(body) ==
    /\ Len(body.reports) <= MaxReports
    /\ \A i \in 1..Len(body.reports) : reportValid(body.reports[i])

\* reportRequestBody: at most 100 reports, each valid, and version 1
requestBodyValid(body) ==
    /\ Len(body.reports) <= MaxReports
    /\ \A i \in 1..Len(body.reports) : reportValid(body.reports[i])
    /\ versionCast(body.version).v >= 1
    /\ versionCast(body.version).v <= 1

\* ------------------------------------------------------------------ inputs

Str1(a) == <<a>>
Str2(a, b) == <<a, b>>

RawReport(item, st, nm, p) ==
    [itemId |-> item, storeId |-> st, itemName |-> nm, price |-> p]

\* the raw reports clients send
RawReports ==
    { RawReport(Str1("a"), Str1("Z"), Undefined, Num(5)),
      RawReport(Str1("a"), Str1("Z"), Str1("b"), Num(6)),
      RawReport(Str2("-", "b"), Str1("Z"), Undefined, Num(-3)) }

\* a report that fails validation: the item id is empty after stripping
BadReport == RawReport(Str2("-", " "), Str1("Z"), Undefined, Num(5))

Batches == UNION { [1..n -> RawReports] : n \in 1..MaxBatch }

\* a batch of 101 reports, each of them valid
Oversize == [i \in 1..(MaxReports + 1) |-> RawReport(Str1("a"), Str1("Z"), Undefined, Num(5))]

Body(reports, version) == [reports |-> reports, version |-> version]

Bodies ==
    { Body(b, NotANumber) : b \in Batches }
    \cup { Body(Oversize, NotANumber),
           Body(<<BadReport>>, Num(1)),
           Body(<<CHOOSE x \in RawReports : x.price = Num(6), BadReport>>, Num(1)),
           Body(<<CHOOSE x \in RawReports : x.price = Num(6)>>, Num(2)) }

\* request.ip; Express leaves it undefined when the socket is gone
NoIp == "undefined"
Ips == {"203.0.113.7", NoIp}

\* createHash('sha256').update(ip).digest('hex')
Hash(ip) == <<"sha256", ip>>

Req == 1..MaxReq

\* ------------------------------------------------------------------- state

VARIABLES
    store,      \* the ItemPriceReport table, in insertion order
    now,        \* CURRENT_TIMESTAMP, in hours
    req,        \* per request: the handler's position and its response
    task,       \* per request: the promises of its dedup loop
    getLog,     \* the response of the last GET /reports request, if any
    normIn,     \* the validators alone: a raw report
    normOut,    \* the validators alone: its outcome
    errLog      \* the response object after the last handleErrorResponse call

vars == <<store, now, req, task, getLog, normIn, normOut, errLog>>

IdleReq ==
    [pc |-> "idle", body |-> Body(<<>>, NotANumber), ip |-> NoIp,
     status |-> 0, sent |-> 0, reads |-> 0, writes |-> 0, len0 |-> 0, at |-> 0,
     overlap |-> FALSE, notified |-> 0]

\* ----------------------------------------------- response.ts, catch blocks

\* the classes of the store client's errors
PrismaErrors ==
    { "PrismaClientKnownRequestError", "PrismaClientUnknownRequestError",
      "PrismaClientRustPanicError", "PrismaClientInitializationError",
      "PrismaClientValidationError" }

\* what a catch block may receive: yup's ValidationError, an error of the
\* store client, any other Error, or a thrown value that is no Error
Thrown == {"ValidationError"} \cup PrismaErrors \cup {"Error", "NotAnError"}

\* error instanceof Error: ValidationError and the store client's errors
\* extend Error
IsError(e) == e # "NotAnError"

\* the catch block of GET /reports: the status it sends
getReportsCatch(e) ==
    IF e = "ValidationError" THEN 400
    ELSE IF IsError(e) THEN 500
    ELSE 500

\* a response object: before counts the responses it had sent when the call
\* came in (headersSent: before > 0), sent those it has sent in all, status
\* is the status the call set (0: none)
ResponseObject(before, e, sent, status) ==
    [called |-> TRUE, before |-> before, error |-> e, sent |-> sent, status |-> status]

\* no call of handleErrorResponse yet
NoCall == [called |-> FALSE, before |-> 0, error |-> "Error", sent |-> 0, status |-> 0]

\* a handler without the headersSent guard
handleErrorResponseNoGuard(before, e) ==
    IF e = "ValidationError" THEN ResponseObject(before, e, before + 1, 400)
    ELSE IF e \in PrismaErrors THEN ResponseObject(before, e, before + 1, 400)
    ELSE IF IsError(e) THEN ResponseObject(before, e, before + 1, 500)
    ELSE ResponseObject(before, e, before + 1, 500)

\* handleErrorResponse(_, response, error)
handleErrorResponse(before, e) ==
    IF before > 0 THEN ResponseObject(before, e, before, 0)
    ELSE IF e = "ValidationError" THEN ResponseObject(before, e, before + 1, 400)
    ELSE IF e \in PrismaErrors THEN ResponseObject(before, e, before + 1, 400)
    ELSE IF IsError(e) THEN ResponseObject(before, e, before + 1, 500)
    ELSE ResponseObject(before, e, before + 1, 500)

NormIdle == [pc |-> "idle", ok |-> FALSE, data |-> reportCast(BadReport)]

Init ==
    /\ store = <<>>
    /\ now = 0
    /\ req = [r \in Req |-> IdleReq]
    /\ task = [r \in Req |-> <<>>]
    /\ getLog = <<>>
    /\ normIn = BadReport
    /\ normOut = NormIdle
    /\ errLog = NoCall

\* ------------------------------------------------------- the store client

Matching(s, storeid, skuid) ==
    { i \in 1..Len(s) : s[i].storeid = storeid /\ s[i].skuid = skuid }

\* orderBy created desc, take 1: the rows the store may answer with; rows of
\* equal `created` have no defined order
Latest(s, storeid, skuid) ==
    { i \in Matching(s, storeid, skuid) :
        \A j \in Matching(s, storeid, skuid) : s[j].created <= s[i].created }

\* findFirst restricted to the rows created within the lookback window
findFirstLookback(s, storeid, skuid) ==
    LET recent == { i \in Matching(s, storeid, skuid) : s[i].created + LookbackHours >= now }
    IN  IF recent = {}
        THEN { <<>> }
        ELSE { <<s[i]>> : i \in { j \in recent : \A k \in recent : s[k].created <= s[j].created } }

\* prisma.itemPriceReport.findFirst: <<>> is null
findFirst(s, storeid, skuid) ==
    IF Matching(s, storeid, skuid) = {}
    THEN { <<>> }
    ELSE { <<s[i]>> : i \in Latest(s, storeid, skuid) }

\* a table with a unique key on (storeid, skuid, price): a second identical
\* insert leaves it as it is
createUnique(s, data, clock) ==
    IF \E k \in 1..Len(s) :
          s[k].storeid = data.storeid /\ s[k].skuid = data.skuid /\ s[k].price = data.price
    THEN s
    ELSE Append(s, [id |-> Len(s) + 1, name |-> data.name, skuid |-> data.skuid,
                    storeid |-> data.storeid, price |-> data.price,
                    reporter |-> data.reporter, created |-> clock])

\* a store that overwrites the latest row of the pair, when there is one
createUpsert(s, data, clock) ==
    LET L == Latest(s, data.storeid, data.skuid)
    IN  IF L = {}
        THEN Append(s, [id |-> Len(s) + 1, name |-> data.name, skuid |-> data.skuid,
                        storeid |-> data.storeid, price |-> data.price,
                        reporter |-> data.reporter, created |-> clock])
        ELSE [s EXCEPT ![CHOOSE k \in L : TRUE] =
                  [@ EXCEPT !.price = data.price, !.reporter = data.reporter,
                            !.created = clock]]

\* prisma.itemPriceReport.create: id and created are set by the store
create(s, data, clock) ==
    Append(s, [id |-> Len(s) + 1, name |-> data.name, skuid |-> data.skuid,
               storeid |-> data.storeid, price |-> data.price,
               reporter |-> data.reporter, created |-> clock])

\* ---------------------------------------------------------- POST /reports

\* remapping of version 1
remap(report, ip) ==
    [name |-> report.itemName, price |-> report.price.v, skuid |-> report.itemId,
     storeid |-> report.storeId, reporter |-> Hash(ip)]

\* the commented-out createMany: every report is inserted
priceChangedAlways(lastReport, report) == TRUE

\* lastReport?.price !== report.price
priceChanged(lastReport, report) ==
    lastReport = <<>> \/ lastReport[1].price # report.price

\* the promise of a task: only accept(null) settles it; the executor takes
\* no reject parameter
PromiseState(t) == IF t.pc = "accepted" THEN "fulfilled" ELSE "pending"

\* a task whose store call has not returned yet
Pending(t) == t.pc \in {"findFirst", "create"}

Busy(r) == \E i \in 1..Len(task[r]) : Pending(task[r][i])

\* a dedup loop that skips the reports with a negative price
newTaskSkipNegative(report) ==
    [report |-> report, pc |-> IF report.price < 0 THEN "accepted" ELSE "findFirst",
     lastReport |-> <<>>, wrote |-> 0]

\* new Promise(async (accept) => ...): the executor runs up to its first
\* await, so findFirst has been issued when the promise is pushed
newTask(report) ==
    [report |-> report, pc |-> "findFirst", lastReport |-> <<>>, wrote |-> 0]

\* validation failed: 400, before anything else
PostInvalid(r, body, ip) ==
    /\ ~requestBodyValid(body)
    /\ req' = [req EXCEPT ![r] = [@ EXCEPT !.pc = "handled", !.body = body, !.ip = ip,
                                           !.status = 400, !.sent = @ + 1,
                                           !.len0 = Len(store), !.at = now]]
    /\ UNCHANGED task

\* update(undefined) throws a TypeError inside reports.map: the catch
\* block answers 500
PostHashThrows(r, body, ip) ==
    /\ requestBodyValid(body)
    /\ ip = NoIp
    /\ Len(body.reports) > 0
    /\ req' = [req EXCEPT ![r] = [@ EXCEPT !.pc = "handled", !.body = body, !.ip = ip,
                                           !.status = 500, !.sent = @ + 1,
                                           !.len0 = Len(store), !.at = now]]
    /\ UNCHANGED task

\* Bookkeeping next to the code's own state.  Of a task: wrote is the id of
\* the row its create inserted (0: none).  Of a request: reads and writes
\* count the store calls it issued, notified the notifications it triggered,
\* len0 is the size of the table and at the clock when it arrived, overlap
\* tells whether another request had store calls in flight during its own.

\* a handler that looks the reporter up before the dedup loop and notifies
\* when the table has no row of theirs
PostAcceptedNotifies(r, body, ip) ==
    /\ requestBodyValid(body)
    /\ ip # NoIp \/ Len(body.reports) = 0
    /\ LET n == Len(body.reports)
           others == \E q \in Req \ {r} : Busy(q)
           known == \E k \in 1..Len(store) : store[k].reporter = Hash(ip)
       IN  /\ task' = [task EXCEPT ![r] =
                          [i \in 1..n |-> newTask(remap(reportCast(body.reports[i]), ip))]]
           /\ req' = [q \in Req |->
                        IF q = r
                        THEN [req[q] EXCEPT !.pc = "handled", !.body = body, !.ip = ip,
                                            !.status = 200, !.sent = @ + 1, !.reads = n + 1,
                                            !.len0 = Len(store), !.at = now,
                                            !.overlap = others,
                                            !.notified = IF known THEN 0 ELSE 1]
                        ELSE IF Busy(q) THEN [req[q] EXCEPT !.overlap = TRUE]
                        ELSE req[q]]

\* the dedup loop starts one promise per report, then 200 is sent
PostAccepted(r, body, ip) ==
    /\ requestBodyValid(body)
    /\ ip # NoIp \/ Len(body.reports) = 0
    /\ LET n == Len(body.reports)
           others == \E q \in Req \ {r} : Busy(q)
       IN  /\ task' = [task EXCEPT ![r] =
                          [i \in 1..n |-> newTask(remap(reportCast(body.reports[i]), ip))]]
           /\ req' = [q \in Req |->
                        IF q = r
                        THEN [req[q] EXCEPT !.pc = "handled", !.body = body, !.ip = ip,
                                            !.status = 200, !.sent = @ + 1, !.reads = n,
                                            !.len0 = Len(store), !.at = now,
                                            !.overlap = others]
                        ELSE IF Busy(q) THEN [req[q] EXCEPT !.overlap = TRUE]
                        ELSE req[q]]

\* app.post('/reports'): requests arrive in the order of their slots
PostReports(r, body, ip) ==
    /\ req[r].pc = "idle"
    /\ \A q \in Req : q < r => req[q].pc = "handled"
    /\ \/ PostInvalid(r, body, ip)
       \/ PostHashThrows(r, body, ip)
       \/ PostAccepted(r, body, ip)
    /\ UNCHANGED <<store, now, getLog, normIn, normOut, errLog>>

\* findFirst returns: compare, then either issue create or accept(null)
FindFirstResolves(r, i) ==
    /\ i \in 1..Len(task[r])
    /\ task[r][i].pc = "findFirst"
    /\ \E last \in findFirst(store, task[r][i].report.storeid, task[r][i].report.skuid) :
          IF priceChanged(last, task[r][i].report)
          THEN /\ task' = [task EXCEPT ![r][i].pc = "create", ![r][i].lastReport = last]
               /\ req' = [req EXCEPT ![r].writes = @ + 1]
          ELSE /\ task' = [task EXCEPT ![r][i].pc = "accepted", ![r][i].lastReport = last]
               /\ UNCHANGED req
    /\ UNCHANGED <<store, now, getLog, normIn, normOut, errLog>>

\* create returns: the row is in the table; accept(null)
CreateResolves(r, i) ==
    /\ i \in 1..Len(task[r])
    /\ task[r][i].pc = "create"
    /\ store' = create(store, task[r][i].report, now)
    /\ task' = [task EXCEPT ![r][i].pc = "accepted", ![r][i].wrote = Len(store) + 1]
    /\ UNCHANGED <<now, req, getLog, normIn, normOut, errLog>>

\* a join that gives up on the first failure: the rejection takes the other
\* store calls of the batch down with it
StoreRejectsAbortsBatch(r, i) ==
    /\ i \in 1..Len(task[r])
    /\ Pending(task[r][i])
    /\ task' = [task EXCEPT ![r] =
                   [j \in 1..Len(task[r]) |->
                      IF Pending(task[r][j]) THEN [task[r][j] EXCEPT !.pc = "rejected"]
                      ELSE task[r][j]]]
    /\ UNCHANGED <<store, now, req, getLog, normIn, normOut, errLog>>

\* a store call throws inside the async executor: nothing catches it, accept
\* is never called, the promise stays pending.  The process lives on
\* (uncaughtException handler).
StoreRejects(r, i) ==
    /\ i \in 1..Len(task[r])
    /\ Pending(task[r][i])
    /\ task' = [task EXCEPT ![r][i].pc = "rejected"]
    /\ UNCHANGED <<store, now, req, getLog, normIn, normOut, errLog>>

\* time passes
Tick(d) ==
    /\ now + d <= MaxClock
    /\ now' = now + d
    /\ UNCHANGED <<store, req, task, getLog, normIn, normOut, errLog>>

\* the clock advances in jumps longer than the lookback window
TickSteps == {LookbackHours + 1}

Next ==
    \/ \E r \in Req, body \in Bodies, ip \in Ips : PostReports(r, body, ip)
    \/ \E r \in Req, i \in 1..MaxBatch : FindFirstResolves(r, i)
    \/ \E r \in Req, i \in 1..MaxBatch : CreateResolves(r, i)
    \/ \E r \in Req, i \in 1..MaxBatch : StoreRejects(r, i)
    \/ \E d \in TickSteps : Tick(d)

Spec == Init /\ [][Next]_vars

\* ----------------------------------------------------------- GET /reports

Query(st, given, ids, page) ==
    [storeId |-> st, itemIds |-> [given |-> given, ids |-> ids], page |-> page]

\* getReportsQuery, cast: the item ids go through storeIdSchema, the page
\* defaults to 0
queryCast(q) ==
    [storeId |-> storeIdSchema(q.storeId),
     itemIds |-> [given |-> q.itemIds.given,
                  ids   |-> [k \in 1..Len(q.itemIds.ids) |-> storeIdSchema(q.itemIds.ids[k])]],
     page    |-> IF q.page.t = "undefined" THEN Num(0) ELSE NumberCast(q.page)]

\* getReportsQuery, tests
queryValid(q) ==
    LET c == queryCast(q)
    IN  /\ StringRequiredOk(c.storeId)
        /\ \A k \in 1..Len(c.itemIds.ids) : StringRequiredOk(c.itemIds.ids[k])
        /\ c.page.v >= 0
        /\ c.page.v <= PageMax

\* where: storeid, and skuid in itemIds (no condition when itemIds is undefined)
Selected(s, storeid, itemIds) ==
    { k \in 1..Len(s) :
        /\ s[k].storeid = storeid
        /\ itemIds.given => \E j \in 1..Len(itemIds.ids) : itemIds.ids[j] = s[k].skuid }

\* orderBy created desc: the orders the store may answer in; rows of equal
\* `created` have no defined order
Orderings(s, sel) ==
    { f \in [1..Cardinality(sel) -> sel] :
        /\ \A a, b \in 1..Cardinality(sel) : a # b => f[a] # f[b]
        /\ \A a, b \in 1..Cardinality(sel) : a < b => s[f[a]].created >= s[f[b]].created }

Min(a, b) == IF a < b THEN a ELSE b

\* skip, take
Slice(f, skip, take) == SubSeq(f, skip + 1, Min(Len(f), skip + take))

\* a projection that leaves the reporter in
omitIdOnly(row) ==
    [name |-> row.name, skuid |-> row.skuid, storeid |-> row.storeid,
     price |-> row.price, reporter |-> row.reporter, created |-> row.created]

\* omit: { id: true, reporter: true }
omit(row) ==
    [name |-> row.name, skuid |-> row.skuid, storeid |-> row.storeid,
     price |-> row.price, created |-> row.created]

\* prisma.itemPriceReport.findMany: the row numbers of the answers it may give
findMany(s, storeid, itemIds, skip, take) ==
    { Slice(f, skip, take) : f \in Orderings(s, Selected(s, storeid, itemIds)) }

\* Bookkeeping of a response: rows are the row numbers behind data, len the
\* size of the table when the query ran.
\* thrownBy is the call whose error the catch block received ("none": the
\* try block ended), sent counts the sends of the path taken: the one that
\* ends the try block or the one of the catch block's branch.
Response(q, status, thrownBy, rows, len) ==
    [query |-> q, status |-> status, thrownBy |-> thrownBy, sent |-> 1, rows |-> rows,
     data |-> [k \in 1..Len(rows) |-> omit(store[rows[k]])], len |-> len]

\* validate throws: the catch block answers 400
GetInvalid(q) ==
    /\ ~queryValid(q)
    /\ getLog' = <<Response(q, getReportsCatch("ValidationError"), "validate",
                            <<>>, Len(store))>>

GetFound(q) ==
    /\ queryValid(q)
    /\ \E rows \in findMany(store, queryCast(q).storeId, queryCast(q).itemIds,
                            queryCast(q).page.v * PageSize, PageSize) :
          getLog' = <<Response(q, 200, "none", rows, Len(store))>>

\* findMany throws, an error of the store client or anything else but a
\* ValidationError: the catch block answers
GetStoreFails(q) ==
    /\ queryValid(q)
    /\ \E e \in Thrown \ {"ValidationError"} :
          getLog' = <<Response(q, getReportsCatch(e), "findMany", <<>>, Len(store))>>

\* app.get('/reports')
GetReports(q) ==
    /\ \/ GetInvalid(q)
       \/ GetFound(q)
       \/ GetStoreFails(q)
    /\ UNCHANGED <<store, now, req, task, normIn, normOut, errLog>>

\* an item id longer than a store id may be, within the limit of item ids
LongId == Rep("b", StoreIdMax + 1)

\* The tables of the runs that read.  Every one of them is a table the
\* write path can leave behind: rows are appended one at a time by create,
\* from remapped reports, and the clock never goes back.
ReadReports ==
    { RawReport(Str1("a"), Str1("Z"), Str1("b"), Num(5)),
      RawReport(<<"-">> \o LongId, Str1("Z"), Undefined, Num(-3)),
      RawReport(Str1("a"), Str1("7"), Undefined, Num(5)) }

Clocks == { 0, LookbackHours + 1 }

LastCreated(s) == IF s = <<>> THEN 0 ELSE s[Len(s)].created

RECURSIVE Tables(_)
Tables(n) ==
    IF n = 0
    THEN { <<>> }
    ELSE Tables(n - 1) \cup
         { create(s, remap(reportCast(x), "203.0.113.7"), c) :
             s \in { u \in Tables(n - 1) : Len(u) = n - 1 },
             x \in ReadReports,
             c \in Clocks }

ReadTables == { s \in Tables(MaxRows) : \A k \in 1..(Len(s) - 1) : s[k].created <= s[k + 1].created }

Pages == { NotANumber } \cup { NumStr(p) : p \in 1..MaxPage } \cup { NumStr(PageMax + 1) }

Queries ==
    { Query(st, FALSE, <<>>, p) : st \in {Str1("Z"), Str1("7"), Str1("-")}, p \in Pages }
    \cup { Query(Str1("Z"), TRUE, ids, p) :
             ids \in {<<>>, <<Str2("a", "-")>>, <<Str1("b"), Str1("a")>>, <<LongId>>},
             p \in {NotANumber, NumStr(1)} }

ReadInit ==
    /\ store \in ReadTables
    /\ now = LastCreated(store)
    /\ req = [r \in Req |-> IdleReq]
    /\ task = [r \in Req |-> <<>>]
    /\ getLog = <<>>
    /\ normIn = BadReport
    /\ normOut = NormIdle
    /\ errLog = NoCall

ReadNext == \E q \in Queries : GetReports(q)

ReadSpec == ReadInit /\ [][ReadNext]_vars

\* ------------------------------------------ the routes and the handler

\* handleErrorResponse is called with a response that has or has not been
\* sent, and with anything a catch block may receive
HandleErrorResponse(before, e) ==
    /\ errLog' = handleErrorResponse(before, e)
    /\ UNCHANGED <<store, now, req, task, getLog, normIn, normOut>>

\* one-report batches, one of them invalid, one of an unsupported version
ServiceBodies ==
    { Body(<<x>>, NotANumber) : x \in RawReports }
    \cup { Body(<<BadReport>>, Num(1)),
           Body(<<CHOOSE x \in RawReports : x.price = Num(6)>>, Num(2)) }

ServiceQueries ==
    { Query(Str1("Z"), FALSE, <<>>, NotANumber),
      Query(Str1("Z"), TRUE, <<Str1("a")>>, NotANumber),
      Query(Str1("-"), FALSE, <<>>, NotANumber) }

\* two prices of one pair, and an invalid batch
StoreBodies ==
    { Body(<<x>>, NotANumber) : x \in { y \in RawReports : y.itemId = Str1("a") } }
    \cup { Body(<<BadReport>>, Num(1)) }

StoreQueries ==
    { Query(Str1("Z"), FALSE, <<>>, NotANumber),
      Query(Str1("-"), FALSE, <<>>, NotANumber) }

\* POST /reports and GET /reports requests, interleaved
StoreNext ==
    \/ \E r \in Req, body \in StoreBodies, ip \in Ips : PostReports(r, body, ip)
    \/ \E r \in Req, i \in 1..MaxBatch : FindFirstResolves(r, i)
    \/ \E r \in Req, i \in 1..MaxBatch : CreateResolves(r, i)
    \/ \E r \in Req, i \in 1..MaxBatch : StoreRejects(r, i)
    \/ \E d \in TickSteps : Tick(d)
    \/ \E q \in StoreQueries : GetReports(q)

StoreSpec == Init /\ [][StoreNext]_vars

FirstReq == CHOOSE r \in Req : \A q \in Req : r <= q

\* one POST /reports request, GET /reports requests and calls of
\* handleErrorResponse, interleaved
ServiceNext ==
    \/ \E body \in ServiceBodies, ip \in Ips : PostReports(FirstReq, body, ip)
    \/ \E i \in 1..MaxBatch : FindFirstResolves(FirstReq, i)
    \/ \E i \in 1..MaxBatch : CreateResolves(FirstReq, i)
    \/ \E i \in 1..MaxBatch : StoreRejects(FirstReq, i)
    \/ \E q \in ServiceQueries : GetReports(q)
    \/ \E before \in {0, 1}, e \in Thrown : HandleErrorResponse(before, e)

ServiceSpec == Init /\ [][ServiceNext]_vars

\* ------------------------------------------------- the validators alone

\* raw strings: a short string, padded on the left or on the right up to
\* the lengths around the three limits
PadChars == {"a", "-", " "}
Shorts == { <<>> } \cup { <<c>> : c \in PadChars } \cup { <<c, d>> : c, d \in PadChars }
PadLens ==
    { 0, StoreIdMax - 1, StoreIdMax, ItemIdMax - 1, ItemIdMax, ItemNameMax - 1, ItemNameMax }

RawStrings ==
    { Rep(c, n) \o x : c \in PadChars, n \in PadLens, x \in Shorts }
    \cup { x \o Rep(c, n) : c \in PadChars, n \in PadLens, x \in Shorts }
    \cup { Undefined }

RawPrices ==
    { Num(-2), Num(-1), Num(0), Num(5), Num(PriceMax), Num(PriceMax + 1),
      NumStr(-5), NumStr(5), NumStr(PriceMax + 1), NotANumber }

\* one field carries the string under test, the others a plain value
NormInputs ==
    { RawReport(x, Str1("Z"), Undefined, p) : x \in RawStrings, p \in RawPrices }
    \cup { RawReport(Str1("a"), x, Undefined, p) : x \in RawStrings, p \in RawPrices }
    \cup { RawReport(Str1("a"), Str1("Z"), x, p) : x \in RawStrings, p \in RawPrices }

NormInit ==
    /\ store = <<>>
    /\ now = 0
    /\ req = [r \in Req |-> IdleReq]
    /\ task = [r \in Req |-> <<>>]
    /\ getLog = <<>>
    /\ normIn \in NormInputs
    /\ normOut = NormIdle
    /\ errLog = NoCall

\* reportSchema.validate(raw): a ValidationError (ok = FALSE) or the cast
\* record
Normalize ==
    /\ normOut.pc = "idle"
    /\ normOut' = [pc |-> "done", ok |-> reportValid(normIn), data |-> reportCast(normIn)]
    /\ UNCHANGED <<store, now, req, task, getLog, normIn, errLog>>

\* the normalized record, sent in again as a raw report
Renormalize ==
    /\ normOut.pc = "done"
    /\ normOut.ok
    /\ normIn' = normOut.data
    /\ normOut' = [pc |-> "again", ok |-> reportValid(normOut.data),
                   data |-> reportCast(normOut.data)]
    /\ UNCHANGED <<store, now, req, task, getLog, errLog>>

NormNext == Normalize \/ Renormalize

NormSpec == NormInit /\ [][NormNext]_vars

\* ------------------------------------------------------------------ claims

Tasks(r) == 1..Len(task[r])

SamePair(a, b) == a.storeid = b.storeid /\ a.skuid = b.skuid

\* every store call of a task starts with findFirst
IssuedFindFirst(t) == t.pc \in {"findFirst", "create", "accepted", "rejected"}

\* request r ran alone, with one report per (store, item) pair
Serial(r) ==
    /\ req[r].pc = "handled"
    /\ ~req[r].overlap
    /\ \A i, j \in Tasks(r) : i # j => ~SamePair(task[r][i].report, task[r][j].report)

\* the table as far as request r's own writes can reach: up to the arrival
\* of the next request that touches the store
LaterAccepted(r) == { q \in Req : q > r /\ req[q].pc = "handled" /\ req[q].status = 200 }

WindowEnd(r) ==
    IF LaterAccepted(r) = {}
    THEN Len(store)
    ELSE req[CHOOSE q \in LaterAccepted(r) : \A x \in LaterAccepted(r) : q <= x].len0

NewRows(r, rep) ==
    { k \in (req[r].len0 + 1)..WindowEnd(r) : SamePair(store[k], rep) }

\* the most recent observations of rep's pair when request r arrived
PriorLatest(r, rep) ==
    LET prior == SubSeq(store, 1, req[r].len0)
    IN  { prior[k] : k \in Latest(prior, rep.storeid, rep.skuid) }

\* C1: a request that runs alone, with one report per pair: each report whose
\* decision completed appended exactly one row carrying its price when the
\* pair had no row or its most recent row had another price, and appended
\* nothing when the most recent row had the same price.
C1_DedupDecision ==
    \A r \in Req : Serial(r) =>
        \A i \in Tasks(r) : task[r][i].pc = "accepted" =>
            LET rep == task[r][i].report
                L   == PriorLatest(r, rep)
                new == NewRows(r, rep)
            IN  /\ (L = {} \/ \A x \in L : x.price # rep.price)
                      => (Cardinality(new) = 1 /\ \A k \in new : store[k].price = rep.price)
                /\ (L # {} /\ \A x \in L : x.price = rep.price) => new = {}

\* a first request appended for a pair without history, a second one, alone,
\* resubmitted the same price and appended nothing
C1_Witness ==
    \E r, q \in Req :
        /\ q < r /\ Serial(q) /\ Serial(r)
        /\ \E i \in Tasks(q) :
              /\ task[q][i].pc = "accepted"
              /\ PriorLatest(q, task[q][i].report) = {}
              /\ Cardinality(NewRows(q, task[q][i].report)) = 1
        /\ \E i \in Tasks(r) :
              /\ task[r][i].pc = "accepted"
              /\ PriorLatest(r, task[r][i].report) # {}
              /\ \A x \in PriorLatest(r, task[r][i].report) : x.price = task[r][i].report.price
              /\ NewRows(r, task[r][i].report) = {}

\* C2: when the 200 response of a batch has been sent, none of its store
\* reads or writes is still outstanding.
C2_ResponseAfterSettle ==
    \A r \in Req :
        (req[r].sent > 0 /\ req[r].status = 200) =>
            \A i \in Tasks(r) : ~Pending(task[r][i])

ReadStep(r, i) ==
    /\ i \in Tasks(r)
    /\ task[r][i].pc = "findFirst"
    /\ task'[r][i].pc \in {"create", "accepted"}

RejectStep(r, i) ==
    /\ i \in Tasks(r)
    /\ Pending(task[r][i])
    /\ task'[r][i].pc = "rejected"

C6_ValidationFirst ==
    \A r \in Req :
        (/\ req[r].pc = "handled"
         /\ \/ Len(req[r].body.reports) > MaxReports
            \/ \E i \in 1..Len(req[r].body.reports) : ~reportValid(req[r].body.reports[i]))
        => /\ req[r].status = 400
           /\ req[r].reads = 0 /\ req[r].writes = 0
           /\ task[r] = <<>>

\* a batch holding a valid and an invalid report was answered 400, and so
\* was a batch of 101 valid reports
C6_Witness ==
    \E r, q \in Req :
        /\ req[r].pc = "handled" /\ req[q].pc = "handled"
        /\ Len(req[r].body.reports) > MaxReports
        /\ req[r].status = 400
        /\ Len(req[q].body.reports) = 2
        /\ \E i, j \in 1..2 : /\ reportValid(req[q].body.reports[i])
                             /\ ~reportValid(req[q].body.reports[j])
        /\ req[q].status = 400
        /\ task[q] = <<>>

\* two tasks of different requests carry the same report, both read null
\* and both completed
RacedPair(r, i, q, j) ==
    /\ r # q
    /\ i \in Tasks(r) /\ j \in Tasks(q)
    /\ task[r][i].report = task[q][j].report
    /\ task[r][i].pc = "accepted" /\ task[q][j].pc = "accepted"
    /\ task[r][i].lastReport = <<>> /\ task[q][j].lastReport = <<>>

\* C10: nothing serialises the check-then-act of two requests: whenever two
\* requests carrying the same report both read "no prior observation" and
\* complete, both have persisted, and the pair holds two rows of that price.
C10_RacePersistsTwice ==
    \A r, q \in Req : \A i, j \in 1..MaxBatch :
        RacedPair(r, i, q, j) =>
            /\ task[r][i].wrote # 0 /\ task[q][j].wrote # 0
            /\ task[r][i].wrote # task[q][j].wrote
            /\ Cardinality({ k \in 1..Len(store) :
                               /\ SamePair(store[k], task[r][i].report)
                               /\ store[k].price = task[r][i].report.price }) >= 2

\* two requests with the identical one-report batch for a pair without
\* history: both read before either wrote, both persisted
C10_Witness ==
    \E r, q \in Req :
        /\ RacedPair(r, 1, q, 1)
        /\ req[r].body = req[q].body /\ Len(req[r].body.reports) = 1
        /\ req[r].len0 = 0 /\ req[q].len0 = 0
        /\ Len(store) = 2
        /\ store[1].price = store[2].price /\ SamePair(store[1], store[2])

OnlyAlnum(x) == \A k \in 1..Len(x) : IsAlnum(x[k])

OnlyAlnumOrSpace(x) == \A k \in 1..Len(x) : IsAlnum(x[k]) \/ IsSpace(x[k])

\* C7: a raw report either fails validation or yields an item id that is
\* non-empty, alphanumeric and at most 32 long, a store id that is
\* non-empty, alphanumeric and at most 8 long, and a name, if present, of
\* alphanumerics and whitespace and at most 96 long; an id that is empty
\* after stripping fails validation.
C7_NormalizedShape ==
    normOut.pc = "done" =>
        /\ normOut.ok =>
              /\ normOut.data.itemId # <<>> /\ normOut.data.itemId # Undefined
              /\ OnlyAlnum(normOut.data.itemId) /\ Len(normOut.data.itemId) <= ItemIdMax
              /\ normOut.data.storeId # <<>> /\ normOut.data.storeId # Undefined
              /\ OnlyAlnum(normOut.data.storeId) /\ Len(normOut.data.storeId) <= StoreIdMax
              /\ normOut.data.itemName # Undefined =>
                    /\ OnlyAlnumOrSpace(normOut.data.itemName)
                    /\ Len(normOut.data.itemName) <= ItemNameMax
        /\ (normIn.itemId # Undefined /\ StripNonAlnum(normIn.itemId) = <<>>) => ~normOut.ok
        /\ (normIn.storeId # Undefined /\ StripNonAlnum(normIn.storeId) = <<>>) => ~normOut.ok

\* C8: no record of the data of a GET /reports response holds the row's id
\* or the reporter fingerprint.
C8_ReadPrivacy ==
    \A n \in 1..Len(getLog) : \A k \in 1..Len(getLog[n].data) :
        /\ "id" \notin DOMAIN getLog[n].data[k]
        /\ "reporter" \notin DOMAIN getLog[n].data[k]

\* a 200 response carries rows, each of them stored with id and reporter
C8_Witness ==
    \E n \in 1..Len(getLog) :
        /\ getLog[n].status = 200
        /\ Len(getLog[n].data) = PageSize
        /\ \A k \in 1..Len(getLog[n].rows) :
              /\ store[getLog[n].rows[k]].reporter = Hash("203.0.113.7")
              /\ store[getLog[n].rows[k]].id = getLog[n].rows[k]

Max(a, b) == IF a > b THEN a ELSE b

\* the rows a response should choose from, and its page number
Wanted(resp) ==
    Selected(store, queryCast(resp.query).storeId, queryCast(resp.query).itemIds)

PageOf(resp) == queryCast(resp.query).page.v

\* the lists of the rows of sel, newest first
NewestFirst(sel) ==
    { f \in [1..Cardinality(sel) -> sel] :
        /\ \A a, b \in 1..Cardinality(sel) : a # b => f[a] # f[b]
        /\ \A a, b \in 1..Cardinality(sel) : a < b => store[f[a]].created >= store[f[b]].created }

\* one response: positions p*PageSize .. p*PageSize + PageSize - 1 of the
\* matching rows, newest first; never more than PageSize rows; no match is an
\* empty 200
C9_PageIsSlice ==
    \A n \in 1..Len(getLog) :
        LET resp == getLog[n]
            sel  == Wanted(resp)
            skip == PageOf(resp) * PageSize
        IN  resp.status = 200 =>
              /\ Len(resp.rows) <= PageSize
              /\ Len(resp.rows) = Max(0, Min(PageSize, Cardinality(sel) - skip))
              /\ \E f \in NewestFirst(sel) :
                    resp.rows = SubSeq(f, skip + 1, Min(Len(f), skip + PageSize))
              /\ resp.data = [k \in 1..Len(resp.rows) |-> omit(store[resp.rows[k]])]

Range(f) == { f[k] : k \in 1..Len(f) }

\* two requests in a row for pages p and p + 1 of the same filter, over the
\* same table: no row is in both, and together they hold the rows at
\* positions p*PageSize .. p*PageSize + 2*PageSize - 1
C9_ConsecutivePages ==
    (/\ getLog # <<>> /\ getLog' # <<>>
     /\ store' = store
     /\ getLog[1].status = 200 /\ getLog'[1].status = 200
     /\ queryCast(getLog'[1].query).storeId = queryCast(getLog[1].query).storeId
     /\ queryCast(getLog'[1].query).itemIds = queryCast(getLog[1].query).itemIds
     /\ PageOf(getLog'[1]) = PageOf(getLog[1]) + 1)
    => /\ Range(getLog[1].rows) \cap Range(getLog'[1].rows) = {}
       /\ Cardinality(Range(getLog[1].rows) \cup Range(getLog'[1].rows))
             = Max(0, Min(2 * PageSize,
                          Cardinality(Wanted(getLog[1])) - PageOf(getLog[1]) * PageSize))

\* C9: each page is the slice of the matching rows, newest first, that its
\* number names, and consecutive pages neither overlap nor skip a row.
C9_Pagination == []C9_PageIsSlice /\ [][C9_ConsecutivePages]_vars

\* the number a raw price stands for, as a JSON number or as a numeric string
RawPriceValue(raw) == raw.v

\* C11: a price that passes validation is within [-1, 100000]: below -1 it
\* became -1, above 100000 it became 100000, otherwise it is the price sent.
C11_PriceClamp ==
    (normOut.pc = "done" /\ normOut.ok) =>
        LET p == RawPriceValue(normIn.price)
            c == normOut.data.price.v
        IN  /\ c >= PriceMin /\ c <= PriceMax
            /\ p < PriceMin => c = PriceMin
            /\ p > PriceMax => c = PriceMax
            /\ (p >= PriceMin /\ p <= PriceMax) => c = p

\* C13: a record that normalization produced, normalized again, passes and
\* comes out as it went in.
C13_Idempotent ==
    normOut.pc = "again" => (normOut.ok /\ normOut.data = normIn)

\* C14: a GET /reports request for store S and the single item id X, page 0,
\* X being an item id ingestion accepts: when the table holds observations
\* persisted from reports with item id X and store id S, fewer than a page
\* of them, the request is answered 200 and every one of them is in the data.
C14_RoundTrip ==
    \A n \in 1..Len(getLog) :
        LET resp == getLog[n]
            q    == resp.query
            X    == q.itemIds.ids[1]
            want == { k \in 1..Len(store) :
                        /\ store[k].skuid = itemIdSchema(X)
                        /\ store[k].storeid = storeIdSchema(q.storeId) }
        IN  (/\ q.itemIds.given /\ Len(q.itemIds.ids) = 1
             /\ q.page = NotANumber
             /\ resp.status # 500
             /\ StringRequiredOk(itemIdSchema(X))
             /\ want # {} /\ Cardinality(want) < PageSize)
            => (resp.status = 200 /\ want \subseteq Range(resp.rows))

AllReportsValid(body) ==
    /\ Len(body.reports) <= MaxReports
    /\ \A i \in 1..Len(body.reports) : reportValid(body.reports[i])

\* C15: a handled request that names a version other than 1 was answered 400
\* and has no dedup task, no store read and no store write; a request
\* without a version, its reports valid, was not answered 400, and with a
\* resolvable address it was answered 200 with one dedup task per report.
C15_VersionGate ==
    \A r \in Req : req[r].pc = "handled" =>
        LET v == req[r].body.version
        IN  /\ (v # NotANumber /\ v.v # 1) =>
                  /\ req[r].status = 400
                  /\ req[r].reads = 0 /\ req[r].writes = 0
                  /\ task[r] = <<>>
            /\ (v = NotANumber /\ AllReportsValid(req[r].body)) =>
                  /\ req[r].status # 400
                  /\ req[r].ip # NoIp =>
                        /\ req[r].status = 200
                        /\ Len(task[r]) = Len(req[r].body.reports)

\* a request with valid reports and version 2 was answered 400, one without
\* a version was answered 200 and has a dedup task
C15_Witness ==
    \E r, q \in Req :
        /\ req[r].pc = "handled" /\ req[q].pc = "handled"
        /\ req[r].body.version = Num(2)
        /\ AllReportsValid(req[r].body)
        /\ req[r].status = 400 /\ task[r] = <<>>
        /\ req[q].body.version = NotANumber
        /\ req[q].status = 200 /\ Len(task[q]) > 0

\* the rows the tasks of request r appended
WrittenBy(r) == { task[r][i].wrote : i \in Tasks(r) } \ {0}

\* C16: a handled request whose body is valid was answered 200 and has one
\* dedup task per report, whatever its address; its tasks and the rows they
\* appended carry one fingerprint, and requests from the same address carry
\* the same fingerprint.
C16_FingerprintNeverFails ==
    /\ \A r \in Req :
          (req[r].pc = "handled" /\ requestBodyValid(req[r].body)) =>
              /\ req[r].status = 200
              /\ Len(task[r]) = Len(req[r].body.reports)
    /\ \A r \in Req : \A i, j \in Tasks(r) :
          task[r][i].report.reporter = task[r][j].report.reporter
    /\ \A r \in Req : \A i \in Tasks(r) : \A k \in WrittenBy(r) :
          k <= Len(store) => store[k].reporter = task[r][i].report.reporter
    /\ \A r, q \in Req : \A i \in Tasks(r), j \in Tasks(q) :
          req[r].ip = req[q].ip => task[r][i].report.reporter = task[q][j].report.reporter

\* C20: a task none of whose store calls is outstanding has settled its
\* promise, also when the store answered a call with an error.
C20_TasksSettle ==
    \A r \in Req : \A i \in Tasks(r) :
        ~Pending(task[r][i]) => PromiseState(task[r][i]) # "pending"

\* the table held a row of request r's reporter when r arrived
ReporterKnown(r) == \E k \in 1..req[r].len0 : store[k].reporter = Hash(req[r].ip)

\* request r was answered 200 and none of its store calls is outstanding
Quiet(r) == req[r].pc = "handled" /\ req[r].status = 200 /\ ~Busy(r)

C12_AppendOnly ==
    [][/\ \/ store' = store
          \/ /\ Len(store') = Len(store) + 1
             /\ SubSeq(store', 1, Len(store)) = store
       /\ getLog' # getLog => store' = store]_vars

\* two rows were appended and a GET /reports request, answered from the
\* table, ran in between
C12_Witness ==
    /\ Len(store) >= 2
    /\ getLog # <<>>
    /\ getLog[1].status = 200
    /\ getLog[1].len = 1
    /\ Len(getLog[1].rows) = 1

\* C18: a response that translates an error of the store client, sent by
\* handleErrorResponse or by the catch block of GET /reports, has a status
\* of 500 or above; a 400 response comes from a validation error only.
C18_StoreErrors500 ==
    /\ (errLog.called /\ errLog.error \in PrismaErrors /\ errLog.sent > errLog.before)
          => errLog.status >= 500
    /\ (errLog.called /\ errLog.status = 400) => errLog.error = "ValidationError"
    /\ \A n \in 1..Len(getLog) :
          /\ getLog[n].thrownBy = "findMany" => getLog[n].status >= 500
          /\ getLog[n].status = 400 => getLog[n].thrownBy = "validate"
    /\ \A r \in Req : req[r].status = 400 => ~requestBodyValid(req[r].body)

=============================================================================
